---- MODULE Spec2Model ----
(***************************************************************************)
(* Model of signal_processing_library/analysis/feature_extraction.py and   *)
(* of dynamic_range_compression of processing/advanced_filters.py.         *)
(*                                                                         *)
(* Every function of the module is a pure function of its arguments, so    *)
(* the state is one call: the arguments, the function that was applied     *)
(* (fn) and what it returned or raised (result).  Init draws the arguments *)
(* from bounded sets, and one action per function applies it.              *)
(*                                                                         *)
(* Samples are integers (floating-point values that are exactly            *)
(* representable); quotients are kept as exact fractions [num, den] and    *)
(* are never rounded.  NaN and raised exceptions are result kinds of their *)
(* own.                                                                    *)
(***************************************************************************)
EXTENDS Integers, Sequences, FiniteSets, TLC

VARIABLES pc, fn, signal, frame_size, hop_size, sampling_rate, target_rate,
          rolloff_percent, threshold, ratio, result

vars == <<pc, fn, signal, frame_size, hop_size, sampling_rate, target_rate,
          rolloff_percent, threshold, ratio, result>>

(***************************************************************************)
(* Bounds of the model.                                                    *)
(***************************************************************************)
MaxLen == 5          \* samples of a signal given to the frame-wise analyses
MaxFrame == 4        \* frame_size
MaxHop == 3          \* hop_size
MaxPitchLen == 7     \* samples of a signal given to calculate_pitch
MaxRoots == 5        \* roots of the formant polynomial above or on the real axis
MaxCompressLen == 3  \* samples of a signal given to dynamic_range_compression

SampleValues == {-1, 0, 1}
FrameSizes == (-1)..MaxFrame
HopSizes == (-1)..MaxHop
Rates == {-1, 0, 1, 8}
RatePairs == {<<1, 1>>, <<3, 2>>, <<2, 1>>, <<5, 2>>, <<1, 2>>,
              <<0, 1>>, <<1, 0>>, <<-2, 1>>}
FormantRates == {0, 500, 1000}
RolloffPercents == {[num |-> n, den |-> 20] : n \in {-1, 0, 1, 10, 17, 20, 21}}
DefaultPercent == [num |-> 17, den |-> 20]
CompressValues == (-2)..2
Thresholds == {[num |-> n, den |-> 2] : n \in {-1, 0, 1, 2, 3}}
Ratios == {[num |-> 1, den |-> 2], [num |-> 1, den |-> 1],
           [num |-> 2, den |-> 1], [num |-> 4, den |-> 1]}
DefaultThreshold == [num |-> 1, den |-> 2]
DefaultRatio == [num |-> 4, den |-> 1]

(***************************************************************************)
(* Result values.                                                          *)
(***************************************************************************)
NoResult == [kind |-> "none"]
Raise(why) == [kind |-> "error", why |-> why]
NaN == [kind |-> "nan"]
Number(n, d) == [kind |-> "number", num |-> n, den |-> d]
Array(vs) == [kind |-> "array", values |-> vs]

Max(a, b) == IF a >= b THEN a ELSE b
Min(a, b) == IF a <= b THEN a ELSE b
Abs(a) == IF a >= 0 THEN a ELSE -a

RECURSIVE SeqsOfLen(_, _)
SeqsOfLen(n, S) ==
    IF n = 0 THEN {<<>>}
    ELSE {Append(s, v) : s \in SeqsOfLen(n - 1, S), v \in S}

SeqsUpTo(n, S) == UNION {SeqsOfLen(k, S) : k \in 0..n}

Zeros(n) == [i \in 1..n |-> 0]

\* s[1] + ... + s[Len(s)], halving the sequence
RECURSIVE SumSeq(_)
SumSeq(s) ==
    IF Len(s) = 0 THEN 0
    ELSE IF Len(s) = 1 THEN s[1]
    ELSE SumSeq(SubSeq(s, 1, Len(s) \div 2))
         + SumSeq(SubSeq(s, (Len(s) \div 2) + 1, Len(s)))

(***************************************************************************)
(* Python built-ins the functions rely on.                                 *)
(***************************************************************************)
\* range(0, stop, step) for step # 0, as the sequence of its values
RECURSIVE RangeFrom(_, _, _)
RangeFrom(cur, stop, step) ==
    IF (step > 0 /\ cur < stop) \/ (step < 0 /\ cur > stop)
    THEN <<cur>> \o RangeFrom(cur + step, stop, step)
    ELSE <<>>

PyRange(stop, step) == RangeFrom(0, stop, step)

\* a slice bound as Python normalises it: negative bounds count from the end,
\* and every bound is clamped into 0..len
SliceBound(i, n) == IF i < 0 THEN Max(i + n, 0) ELSE Min(i, n)

\* s[a:b] (0-based, half open)
PySlice(s, a, b) ==
    LET lo == SliceBound(a, Len(s))
        hi == SliceBound(b, Len(s))
    IN IF lo < hi THEN SubSeq(s, lo + 1, hi) ELSE <<>>

Reverse(s) == [i \in 1..Len(s) |-> s[Len(s) + 1 - i]]

\* s[::k] for k # 0: every k-th element from the first one, or, for a negative
\* step, every |k|-th element from the last one backwards
Stride(s, k) ==
    LET t == IF k > 0 THEN s ELSE Reverse(s)
        a == Abs(k)
    IN [i \in 1..((Len(s) + a - 1) \div a) |-> t[(i - 1) * a + 1]]

\* a // b for b # 0 (floor division)
PyFloorDiv(a, b) == IF b > 0 THEN a \div b ELSE (-a) \div (-b)

(***************************************************************************)
(* short_term_energy and zero_crossing_rate                                *)
(***************************************************************************)
\* the loop header shared by the frame-wise analyses:
\*   for start in range(0, len(signal) - frame_size, hop_size)
FrameStartsInclusive(sig, F, H) == PyRange(Len(sig) - F + 1, H)
FrameStartsWholeSignal(sig, F, H) == PyRange(Len(sig), H)
FrameStarts(sig, F, H) == PyRange(Len(sig) - F, H)

\* frame = signal[start:start + frame_size]
Frame(sig, start, F) == PySlice(sig, start, start + F)

\* np.sum(frame ** 2)
SumSquares(frame) == SumSeq([i \in 1..Len(frame) |-> frame[i] * frame[i]])

\* ((frame[:-1] * frame[1:]) < 0).sum()
SignChangesOrZero(frame) ==
    Cardinality({i \in 1..(Len(frame) - 1) : frame[i] * frame[i + 1] <= 0})
SignChanges(frame) ==
    Cardinality({i \in 1..(Len(frame) - 1) : frame[i] * frame[i + 1] < 0})

short_term_energy(sig, F, H) ==
    IF H = 0 THEN Raise("ValueError")      \* range() arg 3 must not be zero
    ELSE LET starts == FrameStarts(sig, F, H)
         IN Array([i \in 1..Len(starts) |-> SumSquares(Frame(sig, starts[i], F))])

\* an entry is the pair count / frame_size, left undivided
zero_crossing_rate(sig, F, H) ==
    IF H = 0 THEN Raise("ValueError")
    ELSE LET starts == FrameStarts(sig, F, H)
         IN Array([i \in 1..Len(starts) |->
                      [num |-> SignChanges(Frame(sig, starts[i], F)), den |-> F]])

(***************************************************************************)
(* fft_based_downsampling                                                  *)
(*                                                                         *)
(* The brick-wall filter is linear, and for a signal of N samples its      *)
(* kernel is a sum of cosines of multiples of 2*pi/N.  Twice such a cosine *)
(* is an integer exactly for N in {1, 2, 3, 4, 6}, so for these lengths    *)
(* the filtered signal is computed exactly, scaled by 2 * (its length).    *)
(***************************************************************************)
ExactLens == {2, 3, 4, 6}

\* 2 * cos(2 * pi * d / N)
TwoCos(N, d) ==
    LET r == d % N
    IN CASE N = 1 -> 2
         [] N = 2 -> <<2, -2>>[r + 1]
         [] N = 3 -> <<2, -1, -1>>[r + 1]
         [] N = 4 -> <<2, 0, -2, 0>>[r + 1]
         [] N = 6 -> <<2, 1, -1, -2, -1, 1>>[r + 1]

\* number of bins of np.fft.rfft(signal)
RfftBins(N) == (N \div 2) + 1

\* length of np.fft.irfft(spectrum) when no length is passed
IrfftLen(bins) == 2 * (bins - 1)

\* fft_signal[frequencies > cutoff] = 0: bin k, of frequency k * rate / N,
\* survives unless it lies above target_rate / 2
BinKept(k, N, orig, target) == ~(2 * k * orig > target * N)

\* np.fft.irfft of the masked np.fft.rfft(signal), times 2 * IrfftLen:
\* sample j (0-based) is the sum of the surviving bins' contributions; the
\* last bin is read as the Nyquist bin of the output
FilteredSignal(sig, orig, target) ==
    LET N == Len(sig)
        m == RfftBins(N)
        keep(k) == IF BinKept(k, N, orig, target) THEN 1 ELSE 0
        dc == 2 * SumSeq(sig)
        last(j) == (IF j % 2 = 0 THEN 1 ELSE -1)
                   * SumSeq([n \in 1..N |-> sig[n] * TwoCos(N, (m - 1) * (n - 1))])
        mid(k, j) == 2 * SumSeq([n \in 1..N |->
                                   sig[n] * TwoCos(N, k * (j - (n - 1)))])
    IN [j1 \in 1..IrfftLen(m) |->
          keep(0) * dc
          + keep(m - 1) * last(j1 - 1)
          + SumSeq([k \in 1..(m - 2) |-> keep(k) * mid(k, j1 - 1)])]

DecimationStepOne(orig, target) == 1
DecimationStep(orig, target) == PyFloorDiv(orig, target)

fft_based_downsampling(sig, orig, target) ==
    IF Len(sig) = 0 THEN Raise("ValueError")              \* rfft of no samples
    ELSE IF orig = 0 THEN Raise("ZeroDivisionError")      \* d = 1 / original_rate
    ELSE IF IrfftLen(RfftBins(Len(sig))) = 0
         THEN Raise("ValueError")                         \* irfft of one bin
    ELSE IF target = 0 THEN Raise("ZeroDivisionError")    \* original_rate // 0
    ELSE IF DecimationStep(orig, target) = 0
         THEN Raise("ValueError")                         \* slice step cannot be zero
    ELSE Array(Stride(FilteredSignal(sig, orig, target),
                      DecimationStep(orig, target)))

(***************************************************************************)
(* harmonics_to_noise_ratio                                                *)
(***************************************************************************)
\* np.correlate(a, a, mode='full') of a non-empty a: entry j (1-based) is the
\* correlation at lag j - len(a), from -(len(a) - 1) to len(a) - 1
FullCorrelate(a) ==
    LET n == Len(a)
    IN [j \in 1..(2 * n - 1) |->
          LET lo == Max(1, 1 - (j - n))
              hi == Min(n, n - (j - n))
          IN SumSeq([t \in 1..(hi - lo + 1) |->
                        a[lo + t - 1] * a[lo + t - 1 + (j - n)]])]

\* np.correlate(frame, frame, mode='full')[len(frame) - 1:]: lags 0, 1, ...
AutocorrNegativeLags(frame) ==
    LET full == FullCorrelate(frame) IN PySlice(full, 0, Len(frame))
Autocorr(frame) ==
    LET full == FullCorrelate(frame) IN PySlice(full, Len(frame) - 1, Len(full))

RECURSIVE MaxSeq(_)
MaxSeq(s) == IF Len(s) = 1 THEN s[1] ELSE Max(s[1], MaxSeq(Tail(s)))

\* harmonic_energy = np.max(autocorr)
HarmonicEnergy(frame) == MaxSeq(Autocorr(frame))

\* noise_energy = np.mean(np.abs(autocorr[1:])), as the pair sum / count;
\* the mean of no values (a frame of one sample) is NaN
NoiseSum(frame) ==
    LET r == Autocorr(frame) IN SumSeq([k \in 1..(Len(r) - 1) |-> Abs(r[k + 1])])
NoiseCount(frame) == Len(frame) - 1

\* if harmonic_energy > 0 and noise_energy > 0
FrameDefinedEither(frame) ==
    HarmonicEnergy(frame) > 0 \/ (NoiseCount(frame) > 0 /\ NoiseSum(frame) > 0)
FrameDefined(frame) ==
    HarmonicEnergy(frame) > 0 /\ NoiseCount(frame) > 0 /\ NoiseSum(frame) > 0

\* hnr = 10 * np.log10(harmonic_energy / (noise_energy + 1e-6)), kept as the
\* two energies it is computed from; np.nan for an undefined frame
FrameHnr(frame) ==
    IF FrameDefined(frame)
    THEN [kind |-> "hnr", harmonic |-> HarmonicEnergy(frame),
          noise_sum |-> NoiseSum(frame), noise_count |-> NoiseCount(frame)]
    ELSE NaN

\* [hnr for hnr in hnr_values if not np.isnan(hnr)]
DropNaN(vs) == SelectSeq(vs, LAMBDA v : v # NaN)

\* np.mean(hnr_values) if hnr_values else np.nan
MeanOrNaN(vs) == IF vs # <<>> THEN [kind |-> "mean", of |-> vs] ELSE NaN

harmonics_to_noise_ratio(sig, orig, target, F, H) ==
    LET down == fft_based_downsampling(sig, orig, target)
    IN IF down.kind = "error" THEN down
       ELSE IF H = 0 THEN Raise("ValueError")        \* range() arg 3
       ELSE LET ds == down.values
                starts == FrameStarts(ds, F, H)
                frames == [i \in 1..Len(starts) |-> Frame(ds, starts[i], F)]
            IN IF \E i \in 1..Len(frames) : frames[i] = <<>>
               THEN Raise("ValueError")              \* np.correlate of no samples
               ELSE MeanOrNaN(DropNaN([i \in 1..Len(frames) |-> FrameHnr(frames[i])]))

(***************************************************************************)
(* calculate_pitch                                                         *)
(***************************************************************************)
\* scipy.signal.find_peaks(x) with no conditions: the 0-based indices of the
\* local maxima of x.  A maximum is a run of equal samples whose two bordering
\* samples are strictly lower; it is reported once, at the middle of the run
\* (rounded down).  The first and the last sample are never maxima.
RECURSIVE PlateauEnd(_, _, _)
PlateauEnd(x, i, ahead) ==
    IF ahead < Len(x) - 1 /\ x[ahead + 1] = x[i + 1]
    THEN PlateauEnd(x, i, ahead + 1)
    ELSE ahead

RECURSIVE LocalMaxima(_, _)
LocalMaxima(x, i) ==
    IF i >= Len(x) - 1 THEN <<>>
    ELSE IF x[i] < x[i + 1]
         THEN LET ahead == PlateauEnd(x, i, i + 1)
              IN IF x[ahead + 1] < x[i + 1]
                 THEN <<(i + (ahead - 1)) \div 2>> \o LocalMaxima(x, ahead + 1)
                 ELSE LocalMaxima(x, i + 1)
         ELSE LocalMaxima(x, i + 1)

FindPeaksStrict(x) ==
    SelectSeq([i \in 1..(Len(x) - 2) |-> i],
              LAMBDA i : x[i + 1] > x[i] /\ x[i + 1] > x[i + 2])
FindPeaks(x) == LocalMaxima(x, 1)

\* corr = np.correlate(signal, signal, mode='full'); corr = corr[len(corr) // 2:]
PitchCorr(sig) ==
    LET corr == FullCorrelate(sig) IN PySlice(corr, Len(corr) \div 2, Len(corr))

PitchFromPeaks(peaks, rate) ==
    IF Len(peaks) > 1 THEN Number(rate, peaks[2]) ELSE Number(0, 1)

calculate_pitch(sig, rate) ==
    IF Len(sig) = 0 THEN Raise("ValueError")     \* np.correlate of no samples
    ELSE PitchFromPeaks(FindPeaks(PitchCorr(sig)), rate)

(***************************************************************************)
(* spectral_centroid and spectral_rolloff                                  *)
(*                                                                         *)
(* The spectrum of an even-symmetric signal (x[n] = x[N - n]) is real:     *)
(* X[k] is the sum of x[n] * cos(2*pi*k*n/N).  For such signals of a       *)
(* length in {1, 2, 3, 4, 6} the magnitudes are computed exactly, times 2. *)
(* Centroid and rolloff do not change when every magnitude is doubled.     *)
(***************************************************************************)
IsSymmetric(sig) == \A n \in 1..(Len(sig) - 1) : sig[n + 1] = sig[Len(sig) - n + 1]

\* 2 * np.abs(np.fft.rfft(signal)) for a symmetric signal
MagnitudeSpectrum(sig) ==
    LET N == Len(sig)
    IN [k1 \in 1..RfftBins(N) |->
          Abs(SumSeq([n \in 1..N |-> sig[n] * TwoCos(N, (k1 - 1) * (n - 1))]))]

\* np.cumsum(magnitude_spectrum)
CumSumExclusive(s) == [i \in 1..Len(s) |-> SumSeq(SubSeq(s, 1, i - 1))]
CumSum(s) == [i \in 1..Len(s) |-> SumSeq(SubSeq(s, 1, i))]

\* np.fft.rfftfreq(N, d=1/sampling_rate)[k], the fraction k * rate / N
BinFrequency(k, N, rate) == Number(k * rate, N)

spectral_centroid(sig, rate) ==
    IF Len(sig) = 0 THEN Raise("ValueError")            \* rfft of no samples
    ELSE IF rate = 0 THEN Raise("ZeroDivisionError")    \* d = 1 / sampling_rate
    ELSE LET mag == MagnitudeSpectrum(sig)
             weighted == SumSeq([k1 \in 1..Len(mag) |-> (k1 - 1) * mag[k1]])
         IN IF SumSeq(mag) = 0 THEN NaN                 \* 0.0 / 0.0
            ELSE Number(rate * weighted, Len(sig) * SumSeq(mag))

\* cumulative_energy >= rolloff_percent * total_energy at bin k1 (1-based)
ReachesStrictly(cum, k1, pct, total) == cum[k1] * pct.den > pct.num * total
Reaches(cum, k1, pct, total) == cum[k1] * pct.den >= pct.num * total

\* np.where(...)[0]: the 0-based indices of the bins that reach the share
RolloffCandidates(mag, pct) ==
    LET cum == CumSum(mag)
    IN {k1 - 1 : k1 \in {b \in 1..Len(mag) : Reaches(cum, b, pct, SumSeq(mag))}}

SetMin(S) == CHOOSE x \in S : \A y \in S : x <= y
SetMax(S) == CHOOSE x \in S : \A y \in S : x >= y

spectral_rolloff(sig, rate, pct) ==
    IF Len(sig) = 0 THEN Raise("ValueError")            \* rfft of no samples
    ELSE LET found == RolloffCandidates(MagnitudeSpectrum(sig), pct)
         IN IF found = {} THEN Raise("IndexError")      \* [0][0] of no index
            ELSE IF rate = 0 THEN Raise("ZeroDivisionError")
            ELSE BinFrequency(SetMin(found), Len(sig), rate)

(***************************************************************************)
(* formant_frequencies                                                     *)
(*                                                                         *)
(* A complex number is the pair <<re, im>> of its integer parts.  The      *)
(* roots of the polynomial are found exactly among RootChoices and their   *)
(* conjugates; Init draws the signals whose polynomial has all its roots   *)
(* there.  A frequency angle * rate / (2 * pi) is kept as the root and the *)
(* rate it is computed from, and two frequencies are compared exactly.     *)
(***************************************************************************)
RootChoices == << <<1, 0>>, <<2, 0>>, <<-1, 0>>, <<0, 1>>, <<1, 1>> >>

\* n_coeffs = 2 + sampling_rate // 1000
NCoeffs(rate) == 2 + PyFloorDiv(rate, 1000)

\* lfilter(np.ones(n_coeffs), [1], signal): the sum of the last n_coeffs samples
MovingSum(sig, k) ==
    [n \in 1..Len(sig) |-> SumSeq(SubSeq(sig, Max(1, n - k + 1), n))]

\* --- polynomials, highest power first ---
PolyMul(p, q) ==
    [i \in 1..(Len(p) + Len(q) - 1) |->
        LET lo == Max(1, i + 1 - Len(q))
            hi == Min(Len(p), i)
        IN SumSeq([t \in 1..(hi - lo + 1) |->
                      p[lo + t - 1] * q[i + 2 - lo - t]])]

\* the monic real polynomial of least degree with root r
FactorOf(r) ==
    IF r[2] = 0 THEN <<1, -r[1]>>
    ELSE <<1, -2 * r[1], r[1] * r[1] + r[2] * r[2]>>

\* division of p by a monic f, Len(p) >= Len(f): [quot, rem]
RECURSIVE DivStep(_, _, _, _)
DivStep(work, f, i, quot) ==
    IF i > Len(work) - (Len(f) - 1)
    THEN [quot |-> quot, rem |-> SubSeq(work, i, Len(work))]
    ELSE LET c == work[i]
             next == [j \in 1..Len(work) |->
                        IF j >= i /\ j < i + Len(f)
                        THEN work[j] - c * f[j - i + 1] ELSE work[j]]
         IN DivStep(next, f, i + 1, Append(quot, c))

Divides(f, p) ==
    /\ Len(p) >= Len(f)
    /\ DivStep(p, f, 1, <<>>).rem = Zeros(Len(f) - 1)

\* the root r and, for a root off the real axis, its conjugate
WithConjugate(r) == IF r[2] = 0 THEN <<r>> ELSE <<r, <<r[1], -r[2]>> >>

\* the roots of p among RootChoices[c..] and their conjugates, each as often
\* as its multiplicity
RECURSIVE RootsAmong(_, _)
RootsAmong(p, c) ==
    IF c > Len(RootChoices) THEN <<>>
    ELSE LET f == FactorOf(RootChoices[c])
         IN IF Divides(f, p)
            THEN WithConjugate(RootChoices[c])
                 \o RootsAmong(DivStep(p, f, 1, <<>>).quot, c)
            ELSE RootsAmong(p, c + 1)

\* np.roots(a): no root for an all-zero polynomial; leading zeros are
\* dropped, every trailing zero is a root 0, and the rest are the roots of
\* the polynomial between the first and the last nonzero coefficient
NpRoots(a) ==
    LET nz == {i \in 1..Len(a) : a[i] # 0}
    IN IF nz = {} THEN <<>>
       ELSE RootsAmong(SubSeq(a, SetMin(nz), SetMax(nz)), 1)
            \o [i \in 1..(Len(a) - SetMax(nz)) |-> <<0, 0>>]

\* [r for r in roots if np.imag(r) >= 0]
KeepsRootAny(r) == TRUE
KeepsRoot(r) == r[2] >= 0
UpperRoots(roots) == SelectSeq(roots, KeepsRoot)

\* np.angle(r), in (-pi, pi], by the part of the plane r lies in:
\* 0 below the real axis, 1 at angle 0, 2 above the axis, 3 at angle pi
AnglePart(r) ==
    IF r[2] < 0 THEN 0
    ELSE IF r[2] > 0 THEN 2
    ELSE IF r[1] >= 0 THEN 1 ELSE 3

\* np.angle(a) < np.angle(b)
AngleLess(a, b) ==
    IF AnglePart(a) # AnglePart(b) THEN AnglePart(a) < AnglePart(b)
    ELSE IF AnglePart(a) \in {1, 3} THEN FALSE
    ELSE a[1] * b[2] - a[2] * b[1] > 0

\* angles * (sampling_rate / (2 * np.pi)): one frequency
Frequency(r, rate) == [root |-> r, rate |-> rate]

FreqLess(f, g) ==
    IF f.rate > 0 THEN AngleLess(f.root, g.root)
    ELSE IF f.rate < 0 THEN AngleLess(g.root, f.root)
    ELSE FALSE

\* sorted(...): ascending and stable
RECURSIVE InsertSorted(_, _)
InsertSorted(sorted, f) ==
    IF sorted = <<>> THEN <<f>>
    ELSE IF FreqLess(f, sorted[Len(sorted)])
         THEN Append(InsertSorted(SubSeq(sorted, 1, Len(sorted) - 1), f),
                     sorted[Len(sorted)])
         ELSE Append(sorted, f)

RECURSIVE Sorted(_)
Sorted(fs) ==
    IF fs = <<>> THEN <<>>
    ELSE InsertSorted(Sorted(SubSeq(fs, 1, Len(fs) - 1)), fs[Len(fs)])

\* frequencies[:4]
FormantCount == 4

formant_frequencies(sig, rate) ==
    LET roots == UpperRoots(NpRoots(MovingSum(sig, NCoeffs(rate))))
        frequencies == Sorted([i \in 1..Len(roots) |-> Frequency(roots[i], rate)])
    IN Array(PySlice(frequencies, 0, FormantCount))

(***************************************************************************)
(* dynamic_range_compression                                               *)
(*                                                                         *)
(* threshold and ratio are fractions num / den with den > 0, ratio # 0.    *)
(***************************************************************************)
\* mask = np.abs(signal) > threshold, for one sample
AboveThreshold(x, t) == Abs(x) * t.den > t.num

\* threshold + (x - threshold) / ratio, as a fraction
CompressedSample(x, t, r) ==
    [num |-> t.num * r.num + (x * t.den - t.num) * r.den,
     den |-> t.den * r.num]

\* compressed_signal = np.copy(signal);
\* compressed_signal[mask] = threshold + (signal[mask] - threshold) / ratio
dynamic_range_compression(sig, t, r) ==
    Array([i \in 1..Len(sig) |->
             IF AboveThreshold(sig[i], t)
             THEN CompressedSample(sig[i], t, r)
             ELSE [num |-> sig[i], den |-> 1]])

(***************************************************************************)
(* The calls.  pc names the group of functions the arguments were drawn    *)
(* for, and is "done" once a function has been applied to them.            *)
(***************************************************************************)
\* the scenario of the specification: 1600 silent samples, 20 ms frames
Scenario ==
    /\ signal = Zeros(1600)
    /\ frame_size = 320
    /\ hop_size = 160

InitFrames ==
    /\ pc = "frames" /\ fn = "none" /\ result = NoResult
    /\ threshold = DefaultThreshold /\ ratio = DefaultRatio
    /\ \/ /\ signal \in SeqsUpTo(MaxLen, SampleValues)
          /\ frame_size \in FrameSizes
          /\ hop_size \in HopSizes
       \/ Scenario
    /\ sampling_rate = 1 /\ target_rate = 1 /\ rolloff_percent = DefaultPercent

DownSignals == UNION {SeqsOfLen(n, SampleValues) : n \in {0, 1} \cup ExactLens}

InitDown ==
    /\ pc = "down" /\ fn = "none" /\ result = NoResult
    /\ threshold = DefaultThreshold /\ ratio = DefaultRatio
    /\ signal \in DownSignals
    /\ \E p \in RatePairs : sampling_rate = p[1] /\ target_rate = p[2]
    /\ frame_size = 1 /\ hop_size = 1 /\ rolloff_percent = DefaultPercent

HnrSignals ==
    UNION {SeqsOfLen(n, SampleValues) : n \in {0, 1, 2, 3, 4}}
    \cup SeqsOfLen(6, {0, 1})

InitHnr ==
    /\ pc = "hnr" /\ fn = "none" /\ result = NoResult
    /\ threshold = DefaultThreshold /\ ratio = DefaultRatio
    /\ signal \in HnrSignals
    /\ \E p \in RatePairs : sampling_rate = p[1] /\ target_rate = p[2]
    /\ frame_size \in FrameSizes
    /\ hop_size \in HopSizes
    /\ rolloff_percent = DefaultPercent

InitPitch ==
    /\ pc = "pitch" /\ fn = "none" /\ result = NoResult
    /\ threshold = DefaultThreshold /\ ratio = DefaultRatio
    /\ signal \in SeqsUpTo(MaxPitchLen, SampleValues)
    /\ sampling_rate \in Rates
    /\ target_rate = 1 /\ frame_size = 1 /\ hop_size = 1
    /\ rolloff_percent = DefaultPercent

SpectralSignals ==
    {s \in UNION {SeqsOfLen(n, (-2)..2) : n \in {0, 1, 2, 3, 4}} : IsSymmetric(s)}
    \cup {<<a, b, c, d, c, b>> : a \in (-2)..2, b \in (-2)..2,
                                  c \in (-2)..2, d \in (-2)..2}

InitSpectral ==
    /\ pc = "spectral" /\ fn = "none" /\ result = NoResult
    /\ threshold = DefaultThreshold /\ ratio = DefaultRatio
    /\ signal \in SpectralSignals
    /\ sampling_rate \in Rates
    /\ rolloff_percent \in RolloffPercents
    /\ target_rate = 1 /\ frame_size = 1 /\ hop_size = 1

\* the polynomial with the roots RootChoices[c], each mult[c] times, and
\* their conjugates
RECURSIVE PolyOfRoots(_, _)
PolyOfRoots(mult, c) ==
    IF c > Len(RootChoices) THEN <<1>>
    ELSE IF mult[c] = 0 THEN PolyOfRoots(mult, c + 1)
    ELSE PolyMul(FactorOf(RootChoices[c]),
                 PolyOfRoots([mult EXCEPT ![c] = @ - 1], c))

Multiplicities ==
    {mult \in [1..Len(RootChoices) -> 0..MaxRoots] :
        SumSeq(mult) <= MaxRoots}

\* the signal that lfilter(np.ones(k), [1], .) maps to a
RECURSIVE UnMovingSumFrom(_, _, _)
UnMovingSumFrom(a, k, done) ==
    IF Len(done) = Len(a) THEN done
    ELSE UnMovingSumFrom(a, k,
            Append(done, a[Len(done) + 1]
                         - SumSeq(SubSeq(done, Max(1, Len(done) + 2 - k), Len(done)))))

UnMovingSum(a, k) == UnMovingSumFrom(a, k, <<>>)

\* the polynomials drawn: lead * (the polynomial of some roots), between
\* some leading and trailing zero coefficients, and the zero polynomials
ZeroPads == {<<0, 0>>, <<1, 1>>, <<0, 2>>}

Padded(poly, lead, pad) ==
    Zeros(pad[1]) \o [i \in 1..Len(poly) |-> lead * poly[i]] \o Zeros(pad[2])

FormantPolynomials ==
    {Zeros(n) : n \in 1..2}
    \cup {Padded(PolyOfRoots(mult, 1), lead, pad) :
             mult \in Multiplicities, lead \in {-1, 2}, pad \in ZeroPads}

InitFormant ==
    /\ pc = "formant" /\ fn = "none" /\ result = NoResult
    /\ threshold = DefaultThreshold /\ ratio = DefaultRatio
    /\ sampling_rate \in FormantRates
    /\ \E a \in FormantPolynomials : signal = UnMovingSum(a, NCoeffs(sampling_rate))
    /\ target_rate = 1 /\ frame_size = 1 /\ hop_size = 1
    /\ rolloff_percent = DefaultPercent

InitCompress ==
    /\ pc = "compress" /\ fn = "none" /\ result = NoResult
    /\ signal \in SeqsUpTo(MaxCompressLen, CompressValues)
    /\ threshold \in Thresholds
    /\ ratio \in Ratios
    /\ sampling_rate = 1 /\ target_rate = 1 /\ frame_size = 1 /\ hop_size = 1
    /\ rolloff_percent = DefaultPercent

Init ==
    \/ InitFrames \/ InitDown \/ InitHnr \/ InitPitch \/ InitSpectral
    \/ InitFormant \/ InitCompress

Return(name, value) ==
    /\ pc' = "done"
    /\ fn' = name
    /\ result' = value
    /\ UNCHANGED <<signal, frame_size, hop_size, sampling_rate, target_rate,
                   rolloff_percent, threshold, ratio>>

CallShortTermEnergy ==
    /\ pc = "frames"
    /\ Return("short_term_energy", short_term_energy(signal, frame_size, hop_size))

CallZeroCrossingRate ==
    /\ pc = "frames"
    /\ Return("zero_crossing_rate", zero_crossing_rate(signal, frame_size, hop_size))

CallDownsampling ==
    /\ pc = "down"
    /\ Return("fft_based_downsampling",
              fft_based_downsampling(signal, sampling_rate, target_rate))

CallHnr ==
    /\ pc = "hnr"
    /\ Return("harmonics_to_noise_ratio",
              harmonics_to_noise_ratio(signal, sampling_rate, target_rate,
                                       frame_size, hop_size))

CallPitch ==
    /\ pc = "pitch"
    /\ Return("calculate_pitch", calculate_pitch(signal, sampling_rate))

CallSpectralCentroid ==
    /\ pc = "spectral"
    /\ Return("spectral_centroid", spectral_centroid(signal, sampling_rate))

CallSpectralRolloff ==
    /\ pc = "spectral"
    /\ Return("spectral_rolloff",
              spectral_rolloff(signal, sampling_rate, rolloff_percent))

CallFormants ==
    /\ pc = "formant"
    /\ Return("formant_frequencies", formant_frequencies(signal, sampling_rate))

\* the input array is copied before it is compressed, so signal is unchanged
CallCompression ==
    /\ pc = "compress"
    /\ Return("dynamic_range_compression",
              dynamic_range_compression(signal, threshold, ratio))

NextFrames == CallShortTermEnergy \/ CallZeroCrossingRate
NextHnr == CallHnr
NextDown == CallDownsampling
NextPitch == CallPitch
NextSpectral == CallSpectralCentroid \/ CallSpectralRolloff
NextFormant == CallFormants
NextCompress == CallCompression

Next ==
    \/ CallShortTermEnergy
    \/ CallZeroCrossingRate
    \/ CallDownsampling
    \/ CallHnr
    \/ CallPitch
    \/ CallSpectralCentroid
    \/ CallSpectralRolloff
    \/ CallFormants
    \/ CallCompression

Spec == Init /\ [][Next]_vars
SpecFrames == InitFrames /\ [][NextFrames]_vars
SpecDown == InitDown /\ [][NextDown]_vars
SpecHnr == InitHnr /\ [][NextHnr]_vars
SpecPitch == InitPitch /\ [][NextPitch]_vars
SpecSpectral == InitSpectral /\ [][NextSpectral]_vars
SpecFormant == InitFormant /\ [][NextFormant]_vars
SpecCompress == InitCompress /\ [][NextCompress]_vars

\* the three frame-wise analyses together
InitFrameWise == InitFrames \/ InitHnr
NextFrameWise == CallShortTermEnergy \/ CallZeroCrossingRate \/ CallHnr
SpecFrameWise == InitFrameWise /\ [][NextFrameWise]_vars

\* the two analyses built on an autocorrelation
InitAutocorr == InitHnr \/ InitPitch
NextAutocorr == CallHnr \/ CallPitch
SpecAutocorr == InitAutocorr /\ [][NextAutocorr]_vars

(***************************************************************************)
(* The claims.                                                             *)
(***************************************************************************)
Done(name) == pc = "done" /\ fn = name

FrameWise == {"short_term_energy", "zero_crossing_rate", "harmonics_to_noise_ratio"}

\* the start offsets 0, H, 2H, ... with start + F <= L, in ascending order
ClaimedStarts(L, F, H) ==
    LET n == Cardinality({s \in 0..L : s % H = 0 /\ s + F <= L})
    IN [i \in 1..n |-> (i - 1) * H]

\* C1: for frame_size > 0 and hop_size > 0 the frame-wise analyses process
\* exactly the frames that start at 0, H, 2H, ... with start + F <= L, the
\* frame that ends at the last sample included: short_term_energy and
\* zero_crossing_rate return one entry for each of them, and
\* harmonics_to_noise_ratio averages over them.
C1_FramesUpToLastSample ==
    (pc = "done" /\ fn \in FrameWise /\ frame_size > 0 /\ hop_size > 0
       /\ result.kind # "error")
    => LET F == frame_size
           claimed(sig) == ClaimedStarts(Len(sig), F, hop_size)
           frames(sig) == [i \in 1..Len(claimed(sig)) |->
                             SubSeq(sig, claimed(sig)[i] + 1, claimed(sig)[i] + F)]
       IN CASE fn = "short_term_energy" ->
                 result = Array([i \in 1..Len(frames(signal)) |->
                                   SumSquares(frames(signal)[i])])
            [] fn = "zero_crossing_rate" ->
                 result = Array([i \in 1..Len(frames(signal)) |->
                                   [num |-> SignChanges(frames(signal)[i]), den |-> F]])
            [] fn = "harmonics_to_noise_ratio" ->
                 LET ds == fft_based_downsampling(signal, sampling_rate,
                                                  target_rate).values
                 IN result = MeanOrNaN(DropNaN([i \in 1..Len(frames(ds)) |->
                                                  FrameHnr(frames(ds)[i])]))

IsSilent(sig) == \A i \in 1..Len(sig) : sig[i] = 0

AllZeroEntries ==
    \A i \in 1..Len(result.values) :
        IF fn = "zero_crossing_rate"
        THEN result.values[i].num = 0 /\ result.values[i].den # 0
        ELSE result.values[i] = 0

SilentFrames ==
    /\ pc = "done"
    /\ fn \in {"short_term_energy", "zero_crossing_rate"}
    /\ IsSilent(signal)
    /\ 0 < frame_size /\ frame_size <= Len(signal)
    /\ hop_size > 0

\* C2 as stated: over an all-zero signal of length L, with 0 < F <= L and
\* H > 0, short_term_energy and zero_crossing_rate return all-zero
\* sequences of length floor((L - F) / H).
C2_SilentLengthIsFloor ==
    SilentFrames
    => /\ result.kind = "array"
       /\ AllZeroEntries
       /\ Len(result.values) = (Len(signal) - frame_size) \div hop_size

\* C2 as amended: over an all-zero signal of length L, with 0 < F <= L and
\* H > 0, short_term_energy and zero_crossing_rate return all-zero
\* sequences of length ceil((L - F) / H), which is floor((L - F) / H) when
\* H divides L - F; for L = 1600, F = 320, H = 160 that is 8 zeros.
C2_SilentLengthIsCeiling ==
    SilentFrames
    => /\ result.kind = "array"
       /\ AllZeroEntries
       /\ Len(result.values)
            = (Len(signal) - frame_size + hop_size - 1) \div hop_size
       /\ (Len(signal) - frame_size) % hop_size = 0
            => Len(result.values) = (Len(signal) - frame_size) \div hop_size
       /\ (Len(signal) = 1600 /\ frame_size = 320 /\ hop_size = 160)
            => Len(result.values) = 8

C2_Witness ==
    /\ SilentFrames
    /\ (Len(signal) - frame_size) % hop_size # 0
    /\ Len(result.values) >= 2

\* the 0-based indices l..r of a run of equal values of x that touches
\* neither end of x and whose two bordering values are strictly lower
IsPeakRun(x, l, r) ==
    /\ 1 <= l /\ l <= r /\ r <= Len(x) - 2
    /\ \A i \in l..r : x[i + 1] = x[l + 1]
    /\ x[l] < x[l + 1]
    /\ x[r + 2] < x[l + 1]

\* the elements of a finite set of integers, in ascending order
RECURSIVE Ascending(_)
Ascending(S) ==
    IF S = {} THEN <<>> ELSE <<SetMin(S)>> \o Ascending(S \ {SetMin(S)})

StrictPeaks(x) ==
    Ascending({i \in 1..(Len(x) - 2) : IsPeakRun(x, i, i)})

RunPeaks(x) ==
    Ascending({(l + r) \div 2 : <<l, r>> \in
                 {q \in (1..Len(x)) \X (1..Len(x)) : IsPeakRun(x, q[1], q[2])}})

\* C3 as stated: for every autocorrelation, runs of equal adjacent values
\* included, the peak list calculate_pitch uses is the list of the indices
\* i, 1 <= i < n-1, whose value is strictly greater than both neighbours,
\* in ascending order.
C3_PeaksAreStrictMaxima ==
    Done("calculate_pitch") /\ signal # <<>>
    => /\ FindPeaks(PitchCorr(signal)) = StrictPeaks(PitchCorr(signal))
       /\ result = PitchFromPeaks(StrictPeaks(PitchCorr(signal)), sampling_rate)

\* C3 as amended: the peak list calculate_pitch uses holds, in ascending
\* order, one index for every run of equal adjacent values that touches
\* neither end of the autocorrelation and whose two bordering values are
\* strictly lower: the middle index of the run, rounded down.  For a run of
\* one value that is the index whose value is strictly greater than both
\* neighbours.
C3_PeaksAreRunMidpoints ==
    Done("calculate_pitch") /\ signal # <<>>
    => /\ FindPeaks(PitchCorr(signal)) = RunPeaks(PitchCorr(signal))
       /\ result = PitchFromPeaks(RunPeaks(PitchCorr(signal)), sampling_rate)

C3_Witness ==
    /\ Done("calculate_pitch") /\ signal # <<>>
    /\ RunPeaks(PitchCorr(signal)) # StrictPeaks(PitchCorr(signal))
    /\ result.kind = "number" /\ result.num # 0

\* C4: calculate_pitch never fails for a sample buffer: it returns 0.0 when
\* fewer than two autocorrelation peaks are found, and otherwise
\* sampling_rate / lag, where lag is the index of the second peak and is
\* strictly positive.
C4_PitchNeverFails ==
    Done("calculate_pitch")
    => /\ result.kind = "number"
       /\ result.den > 0
       /\ \/ result = Number(0, 1)
          \/ result.num = sampling_rate

Between0And1(pct) == 0 < pct.num /\ pct.num <= pct.den

\* C5: invalid arguments end in an error, never in a normal return value:
\* frame_size <= 0 or hop_size <= 0 in the frame-wise analyses,
\* rolloff_percent outside (0, 1] in spectral_rolloff, and a sample rate
\* <= 0 in every function that takes one.
C5_InvalidArgumentsRejected ==
    pc = "done"
    => /\ (fn \in FrameWise /\ (frame_size <= 0 \/ hop_size <= 0))
            => result.kind = "error"
       /\ (fn = "spectral_rolloff" /\ ~Between0And1(rolloff_percent))
            => result.kind = "error"
       /\ (fn \in {"calculate_pitch", "spectral_centroid", "spectral_rolloff",
                    "formant_frequencies", "fft_based_downsampling",
                    "harmonics_to_noise_ratio"}
            /\ sampling_rate <= 0)
            => result.kind = "error"
       /\ (fn \in {"fft_based_downsampling", "harmonics_to_noise_ratio"}
            /\ target_rate <= 0)
            => result.kind = "error"

SilentSpectrum ==
    /\ pc = "done"
    /\ fn \in {"spectral_centroid", "spectral_rolloff"}
    /\ signal # <<>>
    /\ IsSilent(signal)
    /\ sampling_rate > 0

\* C6 as stated: for a silent signal (every bin of the magnitude spectrum
\* zero) spectral_centroid and spectral_rolloff both return a NaN/Infinity
\* sentinel, neither an error nor an ordinary finite frequency.
C6_SilentGivesSentinel ==
    SilentSpectrum => result.kind = "nan"

\* C6 as amended: for a silent signal of at least one sample and a positive
\* sample rate neither function raises an error; spectral_centroid returns
\* NaN, and spectral_rolloff returns the ordinary finite frequency 0.0 of
\* the first bin, whatever rolloff_percent is.
C6_SilentCentroidNaNRolloffZero ==
    SilentSpectrum
    => /\ \A k1 \in 1..RfftBins(Len(signal)) : MagnitudeSpectrum(signal)[k1] = 0
       /\ fn = "spectral_centroid" => result.kind = "nan"
       /\ fn = "spectral_rolloff"
            => result.kind = "number" /\ result.num = 0 /\ result.den # 0

C6_Witness ==
    /\ SilentSpectrum
    /\ fn = "spectral_rolloff"
    /\ Len(signal) >= 4
    /\ rolloff_percent.num = rolloff_percent.den
    /\ result = Number(0, Len(signal))

\* np.angle of the root of a frequency lies in [0, pi], so that the
\* frequency lies in [0, rate / 2] for a positive rate
InLowerHalfBand(f) == f.root[2] >= 0

SameFrequency(f, g) == ~FreqLess(f, g) /\ ~FreqLess(g, f)

\* how many roots of the polynomial have a non-negative imaginary part
UpperRootCount ==
    LET roots == NpRoots(MovingSum(signal, NCoeffs(sampling_rate)))
    IN Cardinality({i \in 1..Len(roots) : roots[i][2] >= 0})

FormantsOfSignal ==
    /\ Done("formant_frequencies")
    /\ sampling_rate > 0

\* C7 as stated: formant_frequencies returns at most 4 values, strictly
\* ascending (no two equal), each within [0, sampling_rate / 2], whatever
\* the roots are; fewer than 4, without padding, when fewer roots have a
\* non-negative imaginary part.
C7_FormantsStrictlyAscending ==
    FormantsOfSignal
    => /\ result.kind = "array"
       /\ Len(result.values) = Min(4, UpperRootCount)
       /\ \A i \in 1..Len(result.values) : InLowerHalfBand(result.values[i])
       /\ \A i \in 1..(Len(result.values) - 1) :
              FreqLess(result.values[i], result.values[i + 1])

\* C7 as amended: formant_frequencies returns at most 4 values in ascending
\* order, where equal values may follow each other (roots of the same
\* angle, such as a repeated root or several positive real roots), each
\* within [0, sampling_rate / 2]; fewer than 4, without padding, when fewer
\* roots have a non-negative imaginary part.
C7_FormantsAscendingWithTies ==
    FormantsOfSignal
    => /\ result.kind = "array"
       /\ Len(result.values) = Min(4, UpperRootCount)
       /\ \A i \in 1..Len(result.values) : InLowerHalfBand(result.values[i])
       /\ \A i \in 1..(Len(result.values) - 1) :
              ~FreqLess(result.values[i + 1], result.values[i])

C7_Witness ==
    /\ FormantsOfSignal
    /\ UpperRootCount > 4
    /\ Len(result.values) = 4
    /\ SameFrequency(result.values[1], result.values[2])
    /\ FreqLess(result.values[2], result.values[4])

NonMultipleRates ==
    /\ Done("fft_based_downsampling")
    /\ Len(signal) >= 2
    /\ sampling_rate > 0 /\ target_rate > 0
    /\ sampling_rate % target_rate # 0

\* the result holds the samples 0, k, 2k, ... of the filtered signal
EveryKth(k) ==
    LET filtered == FilteredSignal(signal, sampling_rate, target_rate)
        picked == {j \in 0..(Len(filtered) - 1) : j % k = 0}
    IN /\ result.kind = "array"
       /\ Len(result.values) = Cardinality(picked)
       /\ \A i \in 1..Len(result.values) :
              /\ (i - 1) * k \in picked
              /\ result.values[i] = filtered[(i - 1) * k + 1]

\* C8 as stated: with positive integer rates of which original_rate is not
\* a multiple of target_rate, target_rate > original_rate included,
\* fft_based_downsampling never fails and returns the samples 0, k, 2k, ...
\* of the filtered signal, k = original_rate // target_rate.
C8_NonMultipleNeverFails ==
    NonMultipleRates
    => /\ result.kind # "error"
       /\ sampling_rate \div target_rate > 0
            => EveryKth(sampling_rate \div target_rate)

\* C8 as amended: for a signal of at least two samples and positive integer
\* rates of which original_rate is not a multiple of target_rate,
\* fft_based_downsampling returns the samples 0, k, 2k, ... of the filtered
\* signal, k = original_rate // target_rate, when original_rate >
\* target_rate, and fails with a ValueError (k = 0 is no slice step) when
\* target_rate > original_rate.
C8_NonMultipleAboveTarget ==
    NonMultipleRates
    => IF sampling_rate > target_rate
       THEN EveryKth(sampling_rate \div target_rate)
       ELSE result = Raise("ValueError")

C8_Witness ==
    /\ NonMultipleRates
    /\ sampling_rate \div target_rate >= 2
    /\ Len(result.values) >= 3
    /\ result.values[1] # result.values[2]

RolloffCall ==
    /\ Done("spectral_rolloff")
    /\ signal # <<>>
    /\ sampling_rate > 0
    /\ Between0And1(rolloff_percent)

\* the sum of the magnitudes of the bins 0..b
EnergyUpTo(b) == SumSeq(SubSeq(MagnitudeSpectrum(signal), 1, b + 1))

\* the cumulative magnitude at bin b is at least rolloff_percent of the total
ReachesShare(b) ==
    EnergyUpTo(b) * rolloff_percent.den
      >= rolloff_percent.num * SumSeq(MagnitudeSpectrum(signal))

HnrCall ==
    /\ Done("harmonics_to_noise_ratio")
    /\ frame_size > 0 /\ hop_size > 0
    /\ result.kind # "error"

\* the frames harmonics_to_noise_ratio cuts from the downsampled signal
HnrFrames ==
    LET ds == fft_based_downsampling(signal, sampling_rate, target_rate).values
        starts == FrameStarts(ds, frame_size, hop_size)
    IN [i \in 1..Len(starts) |-> SubSeq(ds, starts[i] + 1, starts[i] + frame_size)]

\* the autocorrelation of a frame at lag k
LagProduct(frame, k) ==
    SumSeq([i \in 1..(Len(frame) - k) |-> frame[i] * frame[i + k]])

HarmonicOf(frame) == SetMax({LagProduct(frame, k) : k \in 0..(Len(frame) - 1)})
NoiseOf(frame) == SumSeq([k \in 1..(Len(frame) - 1) |-> Abs(LagProduct(frame, k))])

\* both energies of the frame are strictly positive
BothPositive(frame) ==
    HarmonicOf(frame) > 0 /\ Len(frame) > 1 /\ NoiseOf(frame) > 0

ZcrCall ==
    /\ Done("zero_crossing_rate")
    /\ frame_size > 0 /\ hop_size > 0
    /\ result.kind # "error"

\* the adjacent pairs (x[j], x[j+1]), 1-based, of opposite strict signs that
\* lie wholly inside the frame_size samples from offset start on
CrossingsInside(start) ==
    {j \in (start + 1)..(start + frame_size - 1) :
        j + 1 <= Len(signal) /\ signal[j] * signal[j + 1] < 0}

\* C11: for frame_size > 0 and hop_size > 0 each entry of zero_crossing_rate
\* is the number of adjacent pairs of opposite strict signs inside its frame
\* divided by frame_size; a pair with a zero sample and a pair that
\* straddles two frames are not counted, so every entry lies in
\* [0, (frame_size - 1) / frame_size].
C11_CrossingsOverFrameSize ==
    ZcrCall
    => \A i \in 1..Len(result.values) :
          LET start == (i - 1) * hop_size
              entry == result.values[i]
          IN /\ start + frame_size <= Len(signal)
             /\ entry.den = frame_size
             /\ entry.num = Cardinality(CrossingsInside(start))
             /\ 0 <= entry.num /\ entry.num <= frame_size - 1

C11_Witness ==
    /\ ZcrCall
    /\ hop_size = frame_size
    /\ Len(result.values) = 2
    /\ result.values[1].num = 1 /\ result.values[2].num = 0
    /\ signal[frame_size] * signal[frame_size + 1] < 0
    /\ signal[frame_size + 1] * signal[frame_size + 2] = 0

\* a frame-wise analysis was called with a positive frame and hop size
FrameWiseCall ==
    /\ pc = "done" /\ fn \in FrameWise
    /\ frame_size > 0 /\ hop_size > 0

\* the signal the frames are cut from: the input for short_term_energy and
\* zero_crossing_rate, the downsampled signal for harmonics_to_noise_ratio
\* (no signal when the downsampling fails)
SegmentedSignal ==
    IF fn = "harmonics_to_noise_ratio"
    THEN LET down == fft_based_downsampling(signal, sampling_rate, target_rate)
         IN IF down.kind = "error" THEN <<>> ELSE down.values
    ELSE signal

\* the frames the loop of the function reads
FramesRead ==
    LET starts == FrameStarts(SegmentedSignal, frame_size, hop_size)
    IN [i \in 1..Len(starts) |->
          [start |-> starts[i],
           samples |-> Frame(SegmentedSignal, starts[i], frame_size)]]

\* every frame read has exactly frame_size samples, all of them samples of
\* the signal: no frame runs past the end, none is padded
FramesInside ==
    \A i \in 1..Len(FramesRead) :
        LET f == FramesRead[i]
        IN /\ Len(f.samples) = frame_size
           /\ f.start >= 0 /\ f.start + frame_size <= Len(SegmentedSignal)
           /\ f.samples = SubSeq(SegmentedSignal, f.start + 1,
                                 f.start + frame_size)

\* each entry of the result is computed from one frame read
OneEntryPerFrame ==
    (fn \in {"short_term_energy", "zero_crossing_rate"})
    => /\ result.kind = "array"
       /\ Len(result.values) = Len(FramesRead)
       /\ \A i \in 1..Len(FramesRead) :
             IF fn = "short_term_energy"
             THEN result.values[i] = SumSquares(FramesRead[i].samples)
             ELSE result.values[i].den = Len(FramesRead[i].samples)

\* C12 as stated: with frame_size > 0 and hop_size > 0 every frame read by
\* the three frame-wise analyses has exactly frame_size samples inside the
\* signal, and when frame_size > len(signal) the result of each of them is
\* an empty sequence and no error is raised.
C12_FramesInsideElseEmpty ==
    FrameWiseCall
    => /\ FramesInside
       /\ OneEntryPerFrame
       /\ frame_size > Len(signal) => result = Array(<<>>)

\* C12: with frame_size > 0 and hop_size > 0 every frame read by the three
\* frame-wise analyses has exactly frame_size samples inside the signal it
\* is cut from; when frame_size > len(signal) no frame is read,
\* short_term_energy and zero_crossing_rate return an empty sequence, and
\* harmonics_to_noise_ratio returns NaN unless its downsampling fails.
C12_FramesInsideElseNone ==
    FrameWiseCall
    => /\ FramesInside
       /\ OneEntryPerFrame
       /\ frame_size > Len(signal)
            => /\ FramesRead = <<>>
               /\ fn # "harmonics_to_noise_ratio" => result = Array(<<>>)
               /\ fn = "harmonics_to_noise_ratio"
                    => IF fft_based_downsampling(signal, sampling_rate,
                                                 target_rate).kind = "error"
                       THEN result.kind = "error"
                       ELSE result = NaN

C12_Witness ==
    /\ FrameWiseCall
    /\ fn = "harmonics_to_noise_ratio"
    /\ sampling_rate > 0 /\ target_rate > 0
    /\ Len(signal) >= 2
    /\ frame_size > Len(signal)
    /\ result = NaN

\* r is an autocorrelation over the lags 0, 1, ... of the samples x: its
\* value at lag 0 is the sum of the squared samples and no value is larger
LagZeroIsEnergyAndMax(r, x) ==
    /\ Len(r) = Len(x)
    /\ r[1] = LagProduct(x, 0)
    /\ \A k \in 1..Len(r) : r[k] <= r[1]
    /\ r[1] >= 0
    /\ r[1] = 0 <=> IsSilent(x)

PitchCall == Done("calculate_pitch") /\ result.kind # "error"

\* C13: for every frame of harmonics_to_noise_ratio the autocorrelation over
\* the non-negative lags has its maximum at lag 0, where it is the sum of
\* the squared samples, so harmonic_energy is never negative and is 0
\* exactly for an all-zero frame; the lag-0 value of the autocorrelation of
\* calculate_pitch is the same sum and maximum for the whole signal.
C13_LagZeroIsMaximum ==
    /\ HnrCall
         => \A frames \in {HnrFrames} :
              /\ \A i \in 1..Len(frames) :
                    \A r \in {Autocorr(frames[i])} :
                       /\ LagZeroIsEnergyAndMax(r, frames[i])
                       /\ HarmonicEnergy(frames[i]) = LagProduct(frames[i], 0)
              /\ result.kind = "mean"
                   => \A j \in 1..Len(result.of) :
                         /\ result.of[j].harmonic > 0
                         /\ \E i \in 1..Len(frames) :
                               result.of[j].harmonic = LagProduct(frames[i], 0)
    /\ PitchCall
         => \A r \in {PitchCorr(signal)} : LagZeroIsEnergyAndMax(r, signal)

C13_Witness ==
    /\ HnrCall
    /\ result.kind = "mean"
    /\ \E frames \in {HnrFrames} :
          \E i, j \in 1..Len(frames) :
             /\ IsSilent(frames[i])
             /\ HarmonicEnergy(frames[i]) = 0
             /\ \E r \in {Autocorr(frames[j])} : r[1] > r[2] /\ r[2] > 0

\* the fraction a is at most the fraction b (denominators positive)
FracLeq(a, b) == a.num * b.den <= b.num * a.den

FracAbs(a) == [num |-> Abs(a.num), den |-> a.den]

CompressionCall ==
    /\ Done("dynamic_range_compression")
    /\ threshold.num > 0
    /\ ratio.num >= ratio.den

\* C14: with threshold > 0 and ratio >= 1, dynamic_range_compression returns
\* one value for each sample: the sample itself when |x| <= threshold, and
\* otherwise, for a positive as for a negative sample, a value of the sign
\* of x whose magnitude is at least threshold and at most |x|.
C14_CompressionKeepsSignAndBounds ==
    CompressionCall
    => /\ Len(result.values) = Len(signal)
       /\ \A i \in 1..Len(signal) :
             LET x == signal[i]
                 y == result.values[i]
                 mag == [num |-> Abs(x), den |-> 1]
             IN IF FracLeq(mag, threshold)
                THEN y = [num |-> x, den |-> 1]
                ELSE /\ y.den > 0
                     /\ (x > 0) = (y.num > 0)
                     /\ (x < 0) = (y.num < 0)
                     /\ FracLeq(threshold, FracAbs(y))
                     /\ FracLeq(FracAbs(y), mag)

====
